---- MODULE Spec2Model ----
(***************************************************************************)
(* Model of openMVG::matching_image_collection::GeometricFilter_HMatrix_AC *)
(* (H_ACRobust.hpp): one filter object, its Robust_estimation and          *)
(* Geometry_guided_matching members, and the caller-owned match            *)
(* structures they fill.                                                   *)
(*                                                                         *)
(* Numbers.  A double is a record [inf, val]: Infinity, or a finite value  *)
(* that is a natural number.  Pixel positions are pairs <<x, y>> of        *)
(* integers.  A Mat3 homography is restricted to the translations          *)
(* [tx, ty]; the identity is the zero translation.  Every position of the  *)
(* scene below has y = 0, so every residual is a perfect square and its    *)
(* square root is exact.                                                   *)
(*                                                                         *)
(* Indices.  Feature indices and inlier indices are 1-based here (0-based  *)
(* in the C++ vectors).                                                    *)
(*                                                                         *)
(* Specifications.  Spec: the calls on one filter object.  SpecFill: the   *)
(* coordinate normalizer, column by column.  SpecSampling: the sampling    *)
(* loop of ACRANSAC.  SpecWorkers: two filter objects working on image     *)
(* pairs concurrently.  SpecClean: CleanGraph of                           *)
(* ColorHarmonizationEngineGlobal.  SpecCtor: the constructor of           *)
(* ColorHarmonizationEngineGlobal.  SpecCCTag: the loop that splits the    *)
(* views of a CCTag id into subgroups                                      *)
(* (main_ComputeCCTagStructureFromKnownPoses.cpp).  Each leaves the        *)
(* variables of the others at rest.                                        *)
(***************************************************************************)
EXTENDS Integers, Sequences, FiniteSets, TLC

VARIABLES
  m_dPrecision,             \* upper bound precision given to the constructor
  m_stIteration,            \* iteration budget given to the constructor
  m_H,                      \* stored model
  m_dPrecision_robust,      \* stored robust precision
  geometricInliersPerType,  \* caller's inlier structure, as Robust_estimation left it
  matches,                  \* caller's guided-match structure, as the last call left it
  est,                      \* record of the last Robust_estimation call
  gm,                       \* record of the last Geometry_guided_matching call
  lastOp,                   \* "new", "estimate" or "guided"
  nCalls,                   \* calls made on this object
  nSuccess,                 \* Robust_estimation calls that returned true
  writers,                  \* the calls that last wrote m_H and m_dPrecision_robust
  fill,                     \* a call of the coordinate normalizer
  sampling,                 \* the sampling loop of one estimation
  workers,                  \* filter objects working on image pairs concurrently
  clean,                    \* ColorHarmonizationEngineGlobal::CleanGraph
  ctor,                     \* the constructor of ColorHarmonizationEngineGlobal
  cctag                     \* the CCTag subgroup loop of the structure computation

filterVars == <<m_dPrecision, m_stIteration, m_H, m_dPrecision_robust,
                geometricInliersPerType, matches, est, gm, lastOp, nCalls, nSuccess,
                writers>>

vars == <<m_dPrecision, m_stIteration, m_H, m_dPrecision_robust,
          geometricInliersPerType, matches, est, gm, lastOp, nCalls, nSuccess,
          writers, fill, sampling, workers, clean, ctor, cctag>>

\* A part of the program that a specification does not exercise.
Idle == [pc |-> "idle"]

\* Calls made on one filter object in one behaviour.
MaxCalls == 2

-----------------------------------------------------------------------------
(* doubles *)

Infinity == [inf |-> TRUE, val |-> 0]

Fin(n) == [inf |-> FALSE, val |-> n]

Square(p) == IF p.inf THEN Infinity ELSE Fin(p.val * p.val)

\* a <= b on doubles
Leq(a, b) == b.inf \/ (~a.inf /\ a.val <= b.val)

\* square root of a perfect square
Sqrt(n) == CHOOSE r \in 0..n : r * r = n

Identity == [tx |-> 0, ty |-> 0]

\* default iteration budget of the constructor
DefaultIteration == 1024

-----------------------------------------------------------------------------
(* The scene: four views, two descriptor types.  Read-only collaborators   *)
(* (sfm::SfM_Data, features::RegionsPerView).                              *)

DescTypeOrder == <<"SIFT", "CCTAG">>

\* Regions::GetRegionsPositions of the regions of a view and descriptor type
\* (the raw pixel positions); <<>> when the view has no regions of that type.
RegionsPositions(view, descType) ==
  CASE view = 1 /\ descType = "SIFT"  -> << <<0, 0>>, <<0, 0>>, <<1, 0>>, <<1, 0>> >>
    [] view = 1 /\ descType = "CCTAG" -> << <<0, 0>> >>
    [] view = 2 /\ descType = "SIFT"  -> << <<2, 0>>, <<2, 0>>, <<3, 0>> >>
    [] view = 2 /\ descType = "CCTAG" -> << <<2, 0>> >>
    [] view = 3 /\ descType = "SIFT"  -> << <<9, 0>>, <<9, 0>> >>
    [] view = 4 /\ descType = "CCTAG" -> << <<1, 0>> >>
    [] OTHER -> << >>

\* the descriptor types a view has regions for
HasRegions(view, descType) ==
  \/ view \in {1, 2}
  \/ view = 3 /\ descType = "SIFT"
  \/ view = 4 /\ descType = "CCTAG"

\* The camera of a view: "valid", "invalid" (isValid() is false) or "none"
\* (no intrinsic for the view: a null pointer).
Intrinsic(view) ==
  CASE view = 1 -> "valid"
    [] view = 3 -> "invalid"
    [] OTHER -> "none"

\* IntrinsicBase::get_ud_pixel: the undistorted position of a pixel.
get_ud_pixel(p) == <<p[1] + 1, p[2]>>

\* One descriptor per region, a number; the descriptor distance is the
\* squared difference.
DescriptorOf(view, descType, i) == i

DescriptorDistance(a, b) == (a - b) * (a - b)

RECURSIVE SelectTypes(_, _, _)
SelectTypes(order, i, keep) ==
  IF i > Len(order) THEN << >>
  ELSE (IF order[i] \in keep THEN <<order[i]>> ELSE << >>)
       \o SelectTypes(order, i + 1, keep)

\* RegionsPerView::getCommonDescTypes: the types both views have regions
\* for, in the order of the enumeration.
getCommonDescTypes(pair) ==
  SelectTypes(DescTypeOrder, 1,
    {t \in {"SIFT", "CCTAG"} : HasRegions(pair[1], t) /\ HasRegions(pair[2], t)})

-----------------------------------------------------------------------------
(* matching::MatchesPerDescType: a function from descriptor types to       *)
(* sequences of IndMatch <<i, j>>.                                         *)

NoMatches == << >>

RECURSIVE SumLen(_, _)
SumLen(m, types) ==
  IF types = {} THEN 0
  ELSE LET t == CHOOSE x \in types : TRUE
       IN Len(m[t]) + SumLen(m, types \ {t})

\* MatchesPerDescType::getNbAllMatches
getNbAllMatches(m) == SumLen(m, DOMAIN m)

\* MatchesPerDescType::getNbMatches: 0 for a type the map does not hold
getNbMatches(m, descType) == IF descType \in DOMAIN m THEN Len(m[descType]) ELSE 0

\* faulty variant: the assignment drops the other entries
AssignAlone(m, descType, value) == (descType :> value)

\* m[descType] = value
Assign(m, descType, value) == (descType :> value) @@ m

Range(s) == {s[i] : i \in DOMAIN s}

-----------------------------------------------------------------------------
(* Coordinate normalizer *)

\* faulty variant: the camera is used whenever there is one
UndistortWhenPresent(cam, feat) ==
  IF cam # "none" THEN get_ud_pixel(feat) ELSE feat

\* fillMatricesWithUndistortFeatures: column i of the matrix.
UndistortFeature(cam, feat) ==
  IF cam = "valid" THEN get_ud_pixel(feat) ELSE feat

\* createMatricesWithUndistortFeatures on a flat feature list: the matrix
\* as the sequence of its columns.
createMatricesWithUndistortFeatures(cam, vec_feats) ==
  [i \in 1..Len(vec_feats) |-> UndistortFeature(cam, vec_feats[i])]

RECURSIVE MatchColumns(_, _, _, _, _)
MatchColumns(pair, putative, descTypes, d, side) ==
  IF d > Len(descTypes) THEN << >>
  ELSE LET t == descTypes[d]
           ms == IF t \in DOMAIN putative THEN putative[t] ELSE << >>
           cols == [c \in 1..Len(ms) |->
                      UndistortFeature(Intrinsic(pair[side]),
                        RegionsPositions(pair[side], t)[ms[c][side]])]
       IN cols \o MatchColumns(pair, putative, descTypes, d + 1, side)

\* MatchesPairToMat: the undistorted positions of the putative matches of
\* the descriptor types, type after type, as the two matrices xI and xJ.
MatchesPairToMat(pair, putative, descTypes) ==
  [xI |-> MatchColumns(pair, putative, descTypes, 1, 1),
   xJ |-> MatchColumns(pair, putative, descTypes, 1, 2)]

-----------------------------------------------------------------------------
(* Kernel and estimator *)

\* FourPointSolver::MINIMUM_SAMPLES
MINIMUM_SAMPLES == 4

\* OPENMVG_MINIMUM_SAMPLES_COEF = 2.5 = CoefNum / CoefDen
CoefNum == 5

CoefDen == 2

\* homography::kernel::AsymmetricError: squared distance of x2 to H x1
Error(H, x1, x2) ==
  (x2[1] - (x1[1] + H.tx)) * (x2[1] - (x1[1] + H.tx))
  + (x2[2] - (x1[2] + H.ty)) * (x2[2] - (x1[2] + H.ty))

\* the model a sample fits: the translation taking x1 to x2
Fit(x1, x2) == [tx |-> x2[1] - x1[1], ty |-> x2[2] - x1[2]]

\* position of point i among the points sorted by (residual, index)
ResidualRank(H, xI, xJ, i) ==
  1 + Cardinality({j \in 1..Len(xI) :
        \/ Error(H, xI[j], xJ[j]) < Error(H, xI[i], xJ[i])
        \/ Error(H, xI[j], xJ[j]) = Error(H, xI[i], xJ[i]) /\ j < i})

\* the points sorted by residual
SortedByResidual(H, xI, xJ) ==
  [r \in 1..Len(xI) |-> CHOOSE i \in 1..Len(xI) : ResidualRank(H, xI, xJ, i) = r]

\* ACRANSAC(kernel, inliers, iterations, &model, upper bound): the results
\* the sampling can end with.  Either no model is retained (found is FALSE,
\* inliers empty, the model slot untouched), or the best candidate H with
\* its inlier count k is: the inliers are the k points of smallest residual,
\* H is written to the model slot and the precision is the square root of
\* the k-th smallest residual.  Which sample and which k win is decided by
\* the random sampling and the NFA score: a choice here.
ACRANSAC(xI, xJ, iterations, upper) ==
  LET n == Len(xI)
      none == [found |-> FALSE, inliers |-> << >>, model |-> Identity,
               errorMax |-> Infinity]
      results(H) ==
        LET sorted == SortedByResidual(H, xI, xJ)
            residual == [k \in 1..n |-> Error(H, xI[sorted[k]], xJ[sorted[k]])]
        IN {[found |-> TRUE, inliers |-> SubSeq(sorted, 1, k), model |-> H,
             errorMax |-> Fin(Sqrt(residual[k]))] :
              k \in {c \in MINIMUM_SAMPLES..n : Leq(Fin(residual[c]), upper)}}
  IN IF n < MINIMUM_SAMPLES \/ iterations = 0 THEN {none}
     ELSE {none} \cup UNION {results(H) : H \in {Fit(xI[p], xJ[p]) : p \in 1..n}}

\* the inlier indices in increasing order
SortedInliers(inliers) ==
  [r \in 1..Len(inliers) |->
     CHOOSE i \in Range(inliers) : Cardinality({j \in Range(inliers) : j < i}) = r - 1]

RECURSIVE CopyFrom(_, _, _, _, _, _)
CopyFrom(ordered, n, putative, descTypes, d, start) ==
  \* d: current descriptor type, start: global index before its first match
  IF n > Len(ordered) THEN NoMatches
  ELSE LET t == descTypes[d]
           len == getNbMatches(putative, t)
       IN IF ordered[n] > start + len
          THEN CopyFrom(ordered, n, putative, descTypes, d + 1, start + len)
          ELSE LET rest == CopyFrom(ordered, n + 1, putative, descTypes, d, start)
                   m == putative[t][ordered[n] - start]
               IN Assign(rest, t, <<m>> \o (IF t \in DOMAIN rest THEN rest[t] ELSE << >>))

\* copyInlierMatches: the putative matches the inlier indices name, each
\* under its descriptor type, appended to out.
copyInlierMatches(inliers, putative, descTypes, out) ==
  LET add == CopyFrom(SortedInliers(inliers), 1, putative, descTypes, 1, 0)
  IN [t \in DOMAIN out \cup DOMAIN add |->
        (IF t \in DOMAIN out THEN out[t] ELSE << >>)
        \o (IF t \in DOMAIN add THEN add[t] ELSE << >>)]

-----------------------------------------------------------------------------
(* Robust_estimation *)

\* faulty variant: the output structure is not cleared
KeepOutput(out) == out

\* geometricInliersPerType.clear()
ClearOutput(out) == NoMatches

\* faulty variant: the pair is not tested for common descriptor types
NeverReturnEarly(descTypes) == FALSE

\* if(descTypes.empty()) return false;
NoCommonDescTypes(descTypes) == descTypes = << >>

\* faulty variant: the support test with < for <=
InsufficientSupportStrict(size) == size * CoefDen < MINIMUM_SAMPLES * CoefNum

\* inliers.size() <= KernelType::MINIMUM_SAMPLES * OPENMVG_MINIMUM_SAMPLES_COEF
InsufficientSupport(size) == size * CoefDen <= MINIMUM_SAMPLES * CoefNum

\* faulty variant: the precision is stored before the support test
RobustPrecisionStoredFirst(ok, old, errorMax) == errorMax

\* m_dPrecision_robust after the call: ACRansacOut.first once the support
\* test has passed
RobustPrecisionAfter(ok, old, errorMax) == IF ok THEN errorMax ELSE old

\* m_H after ACRANSAC was handed &m_H
ModelAfter(old, ac) == IF ac.found THEN ac.model ELSE old

\* Robust_estimation on an object whose members hold H and robust: the call
\* on pairIndex with the putative matches and the caller's output structure
\* holding pre, ACRANSAC ending with ac.
EstimateOn(H, robust, pairIndex, putative, pre, ac) ==
  LET descTypes == getCommonDescTypes(pairIndex)
      cleared == ClearOutput(pre)
      ok == ~InsufficientSupport(Len(ac.inliers))
  IN IF NoCommonDescTypes(descTypes)
     THEN [ret |-> FALSE, out |-> cleared, H |-> H,
           robust |-> robust, nInliers |-> 0,
           steps |-> <<"clear", "getCommonDescTypes">>]
     ELSE [ret |-> ok,
           out |-> IF ok THEN copyInlierMatches(ac.inliers, putative, descTypes, cleared)
                   ELSE cleared,
           H |-> ModelAfter(H, ac),
           robust |-> RobustPrecisionAfter(ok, robust, ac.errorMax),
           nInliers |-> Len(ac.inliers),
           steps |-> <<"clear", "getCommonDescTypes", "MatchesPairToMat", "ACRANSAC">>
                     \o (IF ok THEN <<"copyInlierMatches">> ELSE << >>)]

\* The call on the filter object of this specification.
EstimateOutcome(pairIndex, putative, pre, ac) ==
  EstimateOn(m_H, m_dPrecision_robust, pairIndex, putative, pre, ac)

-----------------------------------------------------------------------------
(* Guided matcher *)

RECURSIVE PairsWithin(_, _, _, _, _, _)
PairsWithin(H, xI, xJ, errorTh, i, j) ==
  IF i > Len(xI) THEN << >>
  ELSE IF j > Len(xJ) THEN PairsWithin(H, xI, xJ, errorTh, i + 1, 1)
  ELSE (IF Leq(Fin(Error(H, xI[i], xJ[j])), errorTh) THEN << <<i, j>> >> ELSE << >>)
       \o PairsWithin(H, xI, xJ, errorTh, i, j + 1)

\* geometry_aware::GuidedMatching on positions alone: for every point of
\* the left image, every point of the right image whose residual under the
\* model is within the threshold.
GuidedMatching(H, xI, xJ, errorTh) == PairsWithin(H, xI, xJ, errorTh, 1, 1)

\* IndMatchDecorator: the match with the coordinates of its two features
MatchCoords(m, featsI, featsJ) ==
  <<featsI[m[1]][1], featsI[m[1]][2], featsJ[m[2]][1], featsJ[m[2]][2]>>

\* the order of the decorated matches: by x, y in the left image, then x, y
\* in the right one
CoordsLess(a, b) ==
  \E k \in 1..4 : a[k] < b[k] /\ \A h \in 1..(k - 1) : a[h] = b[h]

\* IndMatchDecorator::getDeduplicated: one match per distinct coordinates
\* (the first of the list), in the order of the coordinates.
getDeduplicated(localMatches, featsI, featsJ) ==
  LET keys == {MatchCoords(m, featsI, featsJ) : m \in Range(localMatches)}
      first(key) == localMatches[CHOOSE n \in DOMAIN localMatches :
                      /\ MatchCoords(localMatches[n], featsI, featsJ) = key
                      /\ \A h \in 1..(n - 1) :
                           MatchCoords(localMatches[h], featsI, featsJ) # key]
  IN [r \in 1..Cardinality(keys) |->
        first(CHOOSE key \in keys :
                Cardinality({o \in keys : CoordsLess(o, key)}) = r - 1)]

\* faulty variant: the robust precision passed as the threshold unsquared
LocalMatchesUnsquared(H, robust, pair, descType) ==
  LET pointsFeaturesI == RegionsPositions(pair[1], descType)
      pointsFeaturesJ == RegionsPositions(pair[2], descType)
      xI == createMatricesWithUndistortFeatures(Intrinsic(pair[1]), pointsFeaturesI)
      xJ == createMatricesWithUndistortFeatures(Intrinsic(pair[2]), pointsFeaturesJ)
  IN getDeduplicated(GuidedMatching(H, xI, xJ, robust),
                     pointsFeaturesI, pointsFeaturesJ)

\* faulty variant: the matches stored as the guided matcher returned them
LocalMatchesNotDeduplicated(H, robust, pair, descType) ==
  LET pointsFeaturesI == RegionsPositions(pair[1], descType)
      pointsFeaturesJ == RegionsPositions(pair[2], descType)
      xI == createMatricesWithUndistortFeatures(Intrinsic(pair[1]), pointsFeaturesI)
      xJ == createMatricesWithUndistortFeatures(Intrinsic(pair[2]), pointsFeaturesJ)
  IN GuidedMatching(H, xI, xJ, Square(robust))

\* the matches of one descriptor type in geometry-only mode (the body of
\* the loop over the descriptor types)
LocalMatches(H, robust, pair, descType) ==
  LET pointsFeaturesI == RegionsPositions(pair[1], descType)
      pointsFeaturesJ == RegionsPositions(pair[2], descType)
      xI == createMatricesWithUndistortFeatures(Intrinsic(pair[1]), pointsFeaturesI)
      xJ == createMatricesWithUndistortFeatures(Intrinsic(pair[2]), pointsFeaturesJ)
  IN getDeduplicated(GuidedMatching(H, xI, xJ, Square(robust)),
                     pointsFeaturesI, pointsFeaturesJ)

\* the loop over the descriptor types: matches[descType] = localMatches
RECURSIVE GeometryOnly(_, _, _, _, _, _)
GeometryOnly(H, robust, pair, descTypes, d, out) ==
  IF d > Len(descTypes) THEN out
  ELSE GeometryOnly(H, robust, pair, descTypes, d + 1,
         Assign(out, descTypes[d], LocalMatches(H, robust, pair, descTypes[d])))

\* the right features a left feature may match: within the threshold of
\* the model
Candidates(H, xI, xJ, errorTh, i) ==
  {j \in 1..Len(xJ) : Leq(Fin(Error(H, xI[i], xJ[j])), errorTh)}

\* the ratio test of left feature i: its nearest candidate by descriptor,
\* kept when its distance is below ratio2 times the second nearest's
RatioMatch(pair, descType, cands, i, ratio2) ==
  LET dist(j) == DescriptorDistance(DescriptorOf(pair[1], descType, i),
                                    DescriptorOf(pair[2], descType, j))
      best == CHOOSE j \in cands :
                \A o \in cands : dist(j) < dist(o) \/ (dist(j) = dist(o) /\ j <= o)
      others == cands \ {best}
  IN IF cands = {} THEN << >>
     ELSE IF \A o \in others : dist(best) < ratio2 * dist(o) THEN << <<i, best>> >>
     ELSE << >>

RECURSIVE RatioMatches(_, _, _, _, _, _, _, _)
RatioMatches(H, pair, descType, xI, xJ, errorTh, ratio2, i) ==
  IF i > Len(xI) THEN << >>
  ELSE RatioMatch(pair, descType, Candidates(H, xI, xJ, errorTh, i), i, ratio2)
       \o RatioMatches(H, pair, descType, xI, xJ, errorTh, ratio2, i + 1)

\* geometry_aware::GuidedMatching on all the regions of the two views:
\* positions and descriptors, the result of each common descriptor type
\* stored under it in out.
RECURSIVE GuidedMatchingDescriptors(_, _, _, _, _, _)
GuidedMatchingDescriptors(H, pair, errorTh, ratio2, d, out) ==
  LET descTypes == getCommonDescTypes(pair)
  IN IF d > Len(descTypes) THEN out
     ELSE LET t == descTypes[d]
              xI == createMatricesWithUndistortFeatures(Intrinsic(pair[1]),
                      RegionsPositions(pair[1], t))
              xJ == createMatricesWithUndistortFeatures(Intrinsic(pair[2]),
                      RegionsPositions(pair[2], t))
          IN GuidedMatchingDescriptors(H, pair, errorTh, ratio2, d + 1,
               Assign(out, t, RatioMatches(H, pair, t, xI, xJ, errorTh, ratio2, 1)))

-----------------------------------------------------------------------------
(* Geometry_guided_matching *)

\* m_dPrecision_robust != std::numeric_limits<double>::infinity()
Estimated(robust) == ~robust.inf

\* return matches.getNbAllMatches() != 0
GuidedReturn(out) == getNbAllMatches(out) # 0

\* the matches the pass itself found: those under the common descriptor types
FoundByPass(out, descTypes) ==
  SumLen(out, Range(descTypes) \cap DOMAIN out)

\* faulty variant: the estimate is consumed by the call
MembersResetByGuided(H, robust, precision, iteration) ==
  [H |-> Identity, robust |-> Infinity, precision |-> precision,
   iteration |-> iteration]

\* The members after Geometry_guided_matching: the body reads m_H and
\* m_dPrecision_robust and assigns no member.
MembersAfterGuided(H, robust, precision, iteration) ==
  [H |-> H, robust |-> robust, precision |-> precision, iteration |-> iteration]

\* faulty variant: the pass runs on an empty list of descriptor types
GuidedNeverReturnsEarly(descTypes) == FALSE

\* if (descTypes.empty()) return false, inside the estimated branch
GuidedReturnsEarly(descTypes) == descTypes = << >>

\* Geometry_guided_matching on an object whose members hold H and robust:
\* the call on imageIdsPair with dDistanceRatio and the caller's structure
\* holding pre.
GuidedOn(H, robust, imageIdsPair, dDistanceRatio, pre) ==
  LET descTypes == getCommonDescTypes(imageIdsPair)
  IN IF ~Estimated(robust)
     THEN [ret |-> GuidedReturn(pre), out |-> pre, swept |-> FALSE, found |-> 0]
     ELSE IF GuidedReturnsEarly(descTypes)
     THEN [ret |-> FALSE, out |-> pre, swept |-> FALSE, found |-> 0]
     ELSE LET out == IF dDistanceRatio < 0
                     THEN GeometryOnly(H, robust, imageIdsPair, descTypes, 1, pre)
                     ELSE GuidedMatchingDescriptors(H, imageIdsPair, Square(robust),
                            dDistanceRatio * dDistanceRatio, 1, pre)
          IN [ret |-> GuidedReturn(out), out |-> out, swept |-> TRUE,
              found |-> FoundByPass(out, descTypes)]

\* The call on the filter object of this specification.
GuidedOutcome(imageIdsPair, dDistanceRatio, pre) ==
  GuidedOn(m_H, m_dPrecision_robust, imageIdsPair, dDistanceRatio, pre)

-----------------------------------------------------------------------------
(* Inputs of the calls *)

Pairs == {<<1, 2>>, <<1, 3>>, <<3, 4>>}

RECURSIVE AllPairsFrom(_, _, _, _)
AllPairsFrom(nI, nJ, i, j) ==
  IF i > nI THEN << >>
  ELSE IF j > nJ THEN AllPairsFrom(nI, nJ, i + 1, 1)
  ELSE << <<i, j>> >> \o AllPairsFrom(nI, nJ, i, j + 1)

\* every match between the regions of a type of the two views
AllMatches(pair, descType) ==
  AllPairsFrom(Len(RegionsPositions(pair[1], descType)),
               Len(RegionsPositions(pair[2], descType)), 1, 1)

\* The putative matches a caller passes for a pair: under some of the
\* common descriptor types, every match between the regions of that type.
PutativeInputs(pair) ==
  UNION {{[t \in T |-> AllMatches(pair, t)]} : T \in SUBSET Range(getCommonDescTypes(pair))}

\* What the caller's output structure may hold before a call.
StaleContents == {NoMatches, "CCTAG" :> << <<1, 1>> >>}

Ratios == {-1, 1}

UpperBounds == {Infinity, Fin(1)}

IterationBudgets == {DefaultIteration}

\* What ACRANSAC can end with, for every input of Robust_estimation.
EstimatorRuns ==
  [c \in UNION {{<<pair, putative, upper, iterations>> :
                   putative \in PutativeInputs(pair), upper \in UpperBounds,
                   iterations \in IterationBudgets} :
                pair \in Pairs} |->
     LET x == MatchesPairToMat(c[1], c[2], getCommonDescTypes(c[1]))
     IN ACRANSAC(x.xI, x.xJ, c[4], Square(c[3]))]

-----------------------------------------------------------------------------
(* The filter object and its calls *)

\* The calls on the object are numbered from 1; 0 is the constructor.
\* writers.H is the call that last wrote m_H, writers.robust the call that
\* last wrote m_dPrecision_robust, writers.success the last Robust_estimation
\* call that returned true.
NoWriters == [H |-> 0, robust |-> 0, success |-> 0]

\* Robust_estimation as call number n: ACRANSAC writes through &m_H when it
\* holds a model, the robust precision is assigned once the support test
\* has passed
WritersAfter(w, n, descTypes, ac, ret) ==
  [H |-> IF ~NoCommonDescTypes(descTypes) /\ ac.found THEN n ELSE w.H,
   robust |-> IF ret THEN n ELSE w.robust,
   success |-> IF ret THEN n ELSE w.success]

NoEstimate ==
  [pair |-> <<0, 0>>, putative |-> NoMatches, descTypes |-> << >>, pre |-> NoMatches,
   ret |-> FALSE, nInliers |-> 0, steps |-> << >>,
   H_before |-> Identity, robust_before |-> Infinity]

NoGuided ==
  [pair |-> <<0, 0>>, ratio |-> 0, descTypes |-> << >>, pre |-> NoMatches,
   ret |-> FALSE, swept |-> FALSE, found |-> 0,
   H_before |-> Identity, robust_before |-> Infinity,
   precision_before |-> Infinity, iteration_before |-> 0]

\* GeometricFilter_HMatrix_AC(dPrecision, iteration)
Init ==
  /\ m_dPrecision \in UpperBounds
  /\ m_stIteration \in IterationBudgets
  /\ m_H = Identity
  /\ m_dPrecision_robust = Infinity
  /\ geometricInliersPerType = NoMatches
  /\ matches = NoMatches
  /\ est = NoEstimate
  /\ gm = NoGuided
  /\ lastOp = "new"
  /\ nCalls = 0
  /\ nSuccess = 0
  /\ writers = NoWriters
  /\ fill = Idle
  /\ sampling = Idle
  /\ workers = Idle
  /\ clean = Idle
  /\ ctor = Idle
  /\ cctag = Idle

\* Robust_estimation(sfmData, regionsPerView, pairIndex,
\*                   putativeMatchesPerType, geometricInliersPerType)
Robust_estimation ==
  /\ nCalls < MaxCalls
  /\ \E pairIndex \in Pairs :
     \E putative \in PutativeInputs(pairIndex) :
     \E ac \in EstimatorRuns[<<pairIndex, putative, m_dPrecision, m_stIteration>>] :
     \E pre \in StaleContents :
     \E r \in {EstimateOutcome(pairIndex, putative, pre, ac)} :
          /\ m_H' = r.H
          /\ m_dPrecision_robust' = r.robust
          /\ geometricInliersPerType' = r.out
          /\ est' = [pair |-> pairIndex, putative |-> putative,
                     descTypes |-> getCommonDescTypes(pairIndex), pre |-> pre,
                     ret |-> r.ret, nInliers |-> r.nInliers, steps |-> r.steps,
                     H_before |-> m_H, robust_before |-> m_dPrecision_robust]
          /\ nSuccess' = IF r.ret THEN nSuccess + 1 ELSE nSuccess
          /\ writers' = WritersAfter(writers, nCalls + 1,
                                     getCommonDescTypes(pairIndex), ac, r.ret)
  /\ lastOp' = "estimate"
  /\ nCalls' = nCalls + 1
  /\ UNCHANGED <<m_dPrecision, m_stIteration, matches, gm>>
  /\ UNCHANGED <<fill, sampling, workers, clean, ctor, cctag>>

\* Geometry_guided_matching(sfmData, regionsPerView, imageIdsPair,
\*                          dDistanceRatio, matches)
Geometry_guided_matching ==
  /\ nCalls < MaxCalls
  /\ \E imageIdsPair \in Pairs, dDistanceRatio \in Ratios, pre \in StaleContents :
     \E r \in {GuidedOutcome(imageIdsPair, dDistanceRatio, pre)} :
          /\ matches' = r.out
          /\ gm' = [pair |-> imageIdsPair, ratio |-> dDistanceRatio,
                    descTypes |-> getCommonDescTypes(imageIdsPair), pre |-> pre,
                    ret |-> r.ret, swept |-> r.swept, found |-> r.found,
                    H_before |-> m_H, robust_before |-> m_dPrecision_robust,
                    precision_before |-> m_dPrecision,
                    iteration_before |-> m_stIteration]
  /\ \E after \in {MembersAfterGuided(m_H, m_dPrecision_robust,
                                        m_dPrecision, m_stIteration)} :
          /\ m_H' = after.H
          /\ m_dPrecision_robust' = after.robust
          /\ m_dPrecision' = after.precision
          /\ m_stIteration' = after.iteration
  /\ lastOp' = "guided"
  /\ nCalls' = nCalls + 1
  /\ UNCHANGED <<geometricInliersPerType, est, nSuccess, writers>>
  /\ UNCHANGED <<fill, sampling, workers, clean, ctor, cctag>>

Next == Robust_estimation \/ Geometry_guided_matching

Spec == Init /\ [][Next]_vars

-----------------------------------------------------------------------------
(* Properties *)

EstimateCalled == est.pair # <<0, 0>>

GuidedCalled == gm.pair # <<0, 0>>

\* C1: a Geometry_guided_matching call made while the robust precision is
\* still unbounded returns false, whatever the caller's match structure
\* held.
C1_UnestimatedGuidedReturnsFalse ==
  (GuidedCalled /\ gm.robust_before.inf) => ~gm.ret

\* C2: the robust precision is finite exactly when a Robust_estimation call
\* on this object has returned true; a new object holds the identity model
\* and an unbounded robust precision.
C2_FiniteIffEstimated ==
  /\ ~m_dPrecision_robust.inf <=> nSuccess > 0
  /\ lastOp = "new" => m_H = Identity /\ m_dPrecision_robust = Infinity

\* a call has succeeded and a later Robust_estimation call has failed
C2_Witness ==
  /\ nSuccess > 0
  /\ lastOp = "estimate"
  /\ ~est.ret
  /\ ~est.robust_before.inf

\* C3: a Robust_estimation call that returns true has more than 10 inliers
\* (2.5 times the 4 points of the minimal sample); with 10 inliers or fewer
\* it returns false.
C3_MinimumSupport ==
  EstimateCalled =>
    /\ est.ret => est.nInliers > 10 /\ est.nInliers * CoefDen > MINIMUM_SAMPLES * CoefNum
    /\ est.nInliers <= 10 => ~est.ret

\* a success with 11 inliers
C3_Witness == EstimateCalled /\ est.ret /\ est.nInliers = 11

\* C4: after a Robust_estimation call that returned false the caller's
\* inlier structure is empty, whatever it held before the call.
C4_FailureLeavesOutputEmpty ==
  (EstimateCalled /\ ~est.ret) =>
    /\ geometricInliersPerType = NoMatches
    /\ getNbAllMatches(geometricInliersPerType) = 0

\* a call that failed for want of inliers on a structure that held matches
C4_Witness ==
  /\ EstimateCalled
  /\ ~est.ret
  /\ est.nInliers > 0
  /\ getNbAllMatches(est.pre) > 0

\* C5: on a pair without common descriptor types Robust_estimation returns
\* false before the point matrices are built and the estimator is run, its
\* output is empty, and the stored model and robust precision are those of
\* before the call.
C5_NoCommonTypesFailsAtOnce ==
  (EstimateCalled /\ est.descTypes = << >>) =>
    /\ ~est.ret
    /\ est.steps = <<"clear", "getCommonDescTypes">>
    /\ geometricInliersPerType = NoMatches
    /\ m_H = est.H_before
    /\ m_dPrecision_robust = est.robust_before

\* such a call on an object that had estimated a model before
C5_Witness ==
  /\ EstimateCalled
  /\ est.descTypes = << >>
  /\ nSuccess > 0
  /\ lastOp = "estimate"

\* C6: after a Robust_estimation call that failed because the best model had
\* too few inliers, the stored model is the one of before the call.
C6_InsufficientInliersKeepsModel ==
  (EstimateCalled /\ ~est.ret /\ est.nInliers > 0) => m_H = est.H_before

\* C7: a Geometry_guided_matching call made while the robust precision is
\* unbounded leaves the caller's match structure as it was, and what it
\* reports is an empty result: no matches.
C7_UnestimatedGuidedNoEffect ==
  (GuidedCalled /\ gm.robust_before.inf) =>
    /\ matches = gm.pre
    /\ ~gm.swept
    /\ ~gm.ret

\* C8: a Geometry_guided_matching call made with a finite robust precision
\* on a pair with common descriptor types returns true exactly when the
\* pass found at least one match.
C8_GuidedReturnIsPassCount ==
  (GuidedCalled /\ ~gm.robust_before.inf /\ gm.descTypes # << >>) =>
    (gm.ret <=> gm.found > 0)

\* C9: after a Robust_estimation call that returned true, the inlier
\* structure holds only descriptor types of the putative matches, under each
\* only matches the putative matches hold under that type, and no more
\* matches in all than the putative matches.
C9_InliersAmongPutatives ==
  (EstimateCalled /\ est.ret) =>
    /\ DOMAIN geometricInliersPerType \subseteq DOMAIN est.putative
    /\ \A t \in DOMAIN geometricInliersPerType :
         Range(geometricInliersPerType[t]) \subseteq Range(est.putative[t])
    /\ getNbAllMatches(geometricInliersPerType) <= getNbAllMatches(est.putative)

\* a success whose inliers are fewer than the putative matches, of two types,
\* on a structure that held matches before
C9_Witness ==
  /\ EstimateCalled
  /\ est.ret
  /\ DOMAIN geometricInliersPerType = {"SIFT", "CCTAG"}
  /\ getNbAllMatches(geometricInliersPerType) < getNbAllMatches(est.putative)
  /\ getNbAllMatches(est.pre) > 0

\* the positions of the two features of the matches of one descriptor type
PositionPairs(ms, pair, descType) ==
  {MatchCoords(m, RegionsPositions(pair[1], descType),
                  RegionsPositions(pair[2], descType)) : m \in Range(ms)}

\* the last call is a geometry-only guided matching on the pair of the
\* last, successful, estimation
GuidedAfterEstimate ==
  /\ EstimateCalled
  /\ est.ret
  /\ lastOp = "guided"
  /\ gm.pair = est.pair
  /\ gm.ratio < 0

GeometryOnlySwept == lastOp = "guided" /\ gm.swept /\ gm.ratio < 0

\* C11: the matches a geometry-only pass has stored under a descriptor type
\* have been through the coordinate-based deduplication once; applying the
\* deduplication to them again gives the same set of matches, and as many.
C11_DeduplicationIdempotent ==
  GeometryOnlySwept =>
    \A t \in Range(gm.descTypes) :
      \E again \in {getDeduplicated(matches[t], RegionsPositions(gm.pair[1], t),
                                     RegionsPositions(gm.pair[2], t))} :
        /\ Range(again) = Range(matches[t])
        /\ Len(again) = Len(matches[t])

\* a pass whose first deduplication dropped matches of the guided matcher
C11_Witness ==
  /\ GeometryOnlySwept
  /\ gm.pair = <<1, 2>>
  /\ Len(matches["SIFT"]) > 1
  /\ Len(matches["SIFT"]) < Len(LocalMatchesNotDeduplicated(m_H, m_dPrecision_robust,
                                                           gm.pair, "SIFT"))

\* C13: each expected data condition is reported by a false return value:
\* no common descriptor type or no putative match, and too few inliers, with
\* an empty inlier structure; a guided matching without an estimate, and a
\* guided matching pass that found no match.
C13_ConditionsReportedByReturn ==
  /\ (EstimateCalled /\ (est.descTypes = << >> \/ getNbAllMatches(est.putative) = 0
                          \/ InsufficientSupport(est.nInliers))) =>
       (~est.ret /\ getNbAllMatches(geometricInliersPerType) = 0)
  /\ (GuidedCalled /\ gm.robust_before.inf) => ~gm.ret
  /\ (GuidedCalled /\ gm.swept /\ gm.found = 0) => ~gm.ret

\* C18: after a Geometry_guided_matching call, in either mode, the stored
\* model, the robust precision, the upper bound precision and the iteration
\* budget are what they were before the call.
C18_GuidedMatchingReadsOnly ==
  lastOp = "guided" =>
    /\ m_H = gm.H_before
    /\ m_dPrecision_robust = gm.robust_before
    /\ m_dPrecision = gm.precision_before
    /\ m_stIteration = gm.iteration_before

\* a descriptor-mode pass that found matches with a model other than the
\* identity
C18_Witness ==
  /\ lastOp = "guided"
  /\ gm.swept
  /\ gm.ratio >= 0
  /\ gm.found > 0
  /\ m_H # Identity
  /\ ~m_dPrecision_robust.inf

-----------------------------------------------------------------------------
(* The coordinate normalizer, column by column.                             *)
(* fill.kind is "flat" (a feature list) or "map" (a mapping from descriptor *)
(* types to feature lists); fill.m is the matrix as the sequence of its     *)
(* columns; fill.todo are the feature lists still to copy, fill.cur the one *)
(* being copied into the block that starts after column fill.y, fill.i the  *)
(* columns of it written so far, fill.blocks the blocks finished.           *)

\* Features of one list.
MaxFeats == 2

\* the state of a filter on which no call is made
FilterUnused ==
  /\ m_dPrecision = Infinity
  /\ m_stIteration = DefaultIteration
  /\ m_H = Identity
  /\ m_dPrecision_robust = Infinity
  /\ geometricInliersPerType = NoMatches
  /\ matches = NoMatches
  /\ est = NoEstimate
  /\ gm = NoGuided
  /\ lastOp = "new"
  /\ nCalls = 0
  /\ nSuccess = 0
  /\ writers = NoWriters

Cameras == {"none", "invalid", "valid"}

FeaturePositions == {<<0, 0>>, <<1, 0>>}

FeatureLists ==
  UNION {[1..n -> FeaturePositions] : n \in 0..MaxFeats}

\* features::MapRegionsPerDesc: the regions of some descriptor types
RegionMaps ==
  UNION {[T -> FeatureLists] : T \in SUBSET {"SIFT", "CCTAG"}}

\* a column of the resized matrix that no loop has written yet
Unset == <<-1, -1>>

\* m.resize(2, nbRegions)
Resized(nbRegions) == [k \in 1..nbRegions |-> Unset]

\* the first loop of the map overload: the sum of RegionCount()
RECURSIVE CountRegions(_)
CountRegions(todo) ==
  IF todo = << >> THEN 0 ELSE Len(Head(todo).feats) + CountRegions(Tail(todo))

\* the entries of a map in the order its iteration meets them
EncounterOrder(regionsPerDesc) ==
  LET types == SelectTypes(DescTypeOrder, 1, DOMAIN regionsPerDesc)
  IN [k \in 1..Len(types) |-> [type |-> types[k], feats |-> regionsPerDesc[types[k]]]]

\* faulty variant: the block offset is not advanced
SameOffset(y, count) == y

\* y += regions.second->RegionCount()
NextOffset(y, count) == y + count

\* createMatricesWithUndistortFeatures(cam, vec_feats, m) after the resize
FlatCall(cam, vec_feats) ==
  [pc |-> "fill", kind |-> "flat", cam |-> cam,
   input |-> << [type |-> "flat", feats |-> vec_feats] >>,
   todo |-> << >>, cur |-> [type |-> "flat", feats |-> vec_feats],
   i |-> 0, y |-> 0, m |-> Resized(Len(vec_feats)), blocks |-> << >>]

\* createMatricesWithUndistortFeatures(cam, regionsPerDesc, m) after the
\* resize
MapCall(cam, regionsPerDesc) ==
  LET order == EncounterOrder(regionsPerDesc)
  IN [pc |-> "loop", kind |-> "map", cam |-> cam, input |-> order,
      todo |-> order, cur |-> [type |-> "flat", feats |-> << >>],
      i |-> 0, y |-> 0, m |-> Resized(CountRegions(order)), blocks |-> << >>]

InitFill ==
  /\ FilterUnused
  /\ fill \in {FlatCall(cam, f) : cam \in Cameras, f \in FeatureLists}
           \cup {MapCall(cam, r) : cam \in Cameras, r \in RegionMaps}
  /\ sampling = Idle
  /\ workers = Idle
  /\ clean = Idle
  /\ ctor = Idle
  /\ cctag = Idle

\* the map overload hands the block of the next descriptor type to
\* fillMatricesWithUndistortFeatures
EnterBlock ==
  /\ fill.pc = "loop"
  /\ fill.todo # << >>
  /\ fill' = [fill EXCEPT !.pc = "fill", !.cur = Head(fill.todo),
                          !.todo = Tail(fill.todo), !.i = 0]
  /\ UNCHANGED <<filterVars, sampling, workers, clean, ctor, cctag>>

\* one pass of the loop of fillMatricesWithUndistortFeatures
FillColumn ==
  /\ fill.pc = "fill"
  /\ fill.i < Len(fill.cur.feats)
  /\ fill' = [fill EXCEPT
                !.m = [fill.m EXCEPT ![fill.y + fill.i + 1] =
                         UndistortFeature(fill.cam, fill.cur.feats[fill.i + 1])],
                !.i = fill.i + 1]
  /\ UNCHANGED <<filterVars, sampling, workers, clean, ctor, cctag>>

\* fillMatricesWithUndistortFeatures returns
LeaveBlock ==
  /\ fill.pc = "fill"
  /\ fill.i = Len(fill.cur.feats)
  /\ fill' = [fill EXCEPT
                !.pc = IF fill.kind = "flat" THEN "done" ELSE "loop",
                !.blocks = Append(fill.blocks,
                             [type |-> fill.cur.type, start |-> fill.y,
                              count |-> Len(fill.cur.feats)]),
                !.y = NextOffset(fill.y, Len(fill.cur.feats))]
  /\ UNCHANGED <<filterVars, sampling, workers, clean, ctor, cctag>>

\* the map overload returns
ReturnMatrix ==
  /\ fill.pc = "loop"
  /\ fill.todo = << >>
  /\ fill' = [fill EXCEPT !.pc = "done"]
  /\ UNCHANGED <<filterVars, sampling, workers, clean, ctor, cctag>>

NextFill == EnterBlock \/ FillColumn \/ LeaveBlock \/ ReturnMatrix

SpecFill == InitFill /\ [][NextFill]_vars

\* the features of all the lists of the input, one after the other
RECURSIVE Concatenated(_)
Concatenated(input) ==
  IF input = << >> THEN << >> ELSE Head(input).feats \o Concatenated(Tail(input))

\* C14: when the normalizer returns and the camera is null or invalid,
\* column i of the matrix is the raw position of feature i, for every i;
\* with a valid camera column i is the undistorted position of feature i.
C14_PassthroughWithoutValidCamera ==
  fill.pc = "done" =>
    \E feats \in {Concatenated(fill.input)} :
      /\ Len(fill.m) = Len(feats)
      /\ fill.cam # "valid" => \A k \in 1..Len(feats) : fill.m[k] = feats[k]
      /\ fill.cam = "valid" => \A k \in 1..Len(feats) : fill.m[k] = get_ud_pixel(feats[k])

\* a returned call on a list of two different features with a camera that
\* is present and invalid
C14_Witness ==
  /\ fill.pc = "done"
  /\ fill.kind = "flat"
  /\ fill.cam = "invalid"
  /\ fill.m = << <<1, 0>>, <<0, 0>> >>

\* C15: when the map overload returns, the matrix has as many columns as
\* the lists have features in all; the blocks are one per descriptor type,
\* in the order the types were met, each of its type's feature count and
\* starting where the previous one ends, the first at column 0; and every
\* column of a block holds the feature of its type at that place.
C15_ContiguousBlocksInOrder ==
  (fill.pc = "done" /\ fill.kind = "map") =>
    /\ Len(fill.m) = CountRegions(fill.input)
    /\ Len(fill.blocks) = Len(fill.input)
    /\ \A b \in 1..Len(fill.blocks) :
         /\ fill.blocks[b].type = fill.input[b].type
         /\ fill.blocks[b].count = Len(fill.input[b].feats)
         /\ fill.blocks[b].start =
              (IF b = 1 THEN 0 ELSE fill.blocks[b - 1].start + fill.blocks[b - 1].count)
         /\ \A k \in 1..fill.blocks[b].count :
              fill.m[fill.blocks[b].start + k] =
                UndistortFeature(fill.cam, fill.input[b].feats[k])
    /\ \A k \in 1..Len(fill.m) : fill.m[k] # Unset

\* a returned call on a map of two descriptor types, two features each
C15_Witness ==
  /\ fill.pc = "done"
  /\ fill.kind = "map"
  /\ Len(fill.blocks) = 2
  /\ fill.blocks[2].start = 2
  /\ fill.blocks[2].count = 2

-----------------------------------------------------------------------------
(* The sampling loop of ACRANSAC, pass by pass.                             *)
(* sampling.budget is the iteration budget Robust_estimation hands over     *)
(* (m_stIteration), sampling.iter the iterations used, sampling.passes the  *)
(* samples drawn, sampling.found whether a best model is held, and          *)
(* sampling.fitted whether any sample so far gave a candidate model.        *)

\* the budgets of the loop: none, one, and the constructor's default
LoopBudgets == {0, 1, DefaultIteration}

\* what one sample leads to: no candidate model, a candidate that improves
\* the best score, a candidate that does not
SampleOutcomes == {"degenerate", "improved", "not improved"}

\* faulty variant: a degenerate sample is drawn again without being counted
IterationsAfterRetry(iter, outcome) ==
  IF outcome = "degenerate" THEN iter ELSE iter + 1

\* the iterations used after a pass: every sample counts, a skipped one too
IterationsAfter(iter, outcome) == iter + 1

InitSampling ==
  /\ FilterUnused
  /\ fill = Idle
  /\ sampling \in {[pc |-> "loop", budget |-> b, iter |-> 0, passes |-> 0,
                     found |-> FALSE, fitted |-> FALSE] : b \in LoopBudgets}
  /\ workers = Idle
  /\ clean = Idle
  /\ ctor = Idle
  /\ cctag = Idle

\* one pass: draw a minimal sample, fit, score the candidates
DrawSample ==
  /\ sampling.pc = "loop"
  /\ sampling.iter < sampling.budget
  /\ \E outcome \in SampleOutcomes :
       /\ outcome = "not improved" => sampling.found
       /\ sampling' = [sampling EXCEPT
                         !.iter = IterationsAfter(sampling.iter, outcome),
                         !.passes = sampling.passes + 1,
                         !.found = sampling.found \/ outcome = "improved",
                         !.fitted = sampling.fitted \/ outcome # "degenerate"]
  /\ UNCHANGED <<filterVars, fill, workers, clean, ctor, cctag>>

\* the optional early exit: a best model is held and the loop stops before
\* the budget is used up
EarlyExit ==
  /\ sampling.pc = "loop"
  /\ sampling.iter < sampling.budget
  /\ sampling.found
  /\ sampling' = [sampling EXCEPT !.pc = "done"]
  /\ UNCHANGED <<filterVars, fill, workers, clean, ctor, cctag>>

\* the budget is used up
BudgetExhausted ==
  /\ sampling.pc = "loop"
  /\ sampling.iter >= sampling.budget
  /\ sampling' = [sampling EXCEPT !.pc = "done"]
  /\ UNCHANGED <<filterVars, fill, workers, clean, ctor, cctag>>

NextSampling == DrawSample \/ EarlyExit \/ BudgetExhausted

\* The call of ACRANSAC is synchronous and nothing else runs in its thread:
\* the loop keeps taking its next step as long as it has one.
SpecSampling == InitSampling /\ [][NextSampling]_vars /\ WF_vars(NextSampling)

\* C16: the sampling loop never draws more samples than the iteration
\* budget, and it always comes to its end, whatever the samples lead to.
C16_SamplingTerminates ==
  /\ [](sampling.passes <= sampling.budget)
  /\ <>(sampling.pc = "done")

\* the loop ended after the default budget of samples, all of them
\* degenerate
C16_Witness ==
  /\ sampling.pc = "done"
  /\ sampling.budget = DefaultIteration
  /\ sampling.passes = DefaultIteration
  /\ ~sampling.fitted

-----------------------------------------------------------------------------
(* Image pairs processed concurrently.                                      *)
(* Each worker thread owns a filter object and its two output structures    *)
(* and runs Robust_estimation, then geometry-only Geometry_guided_matching, *)
(* on its pair; the scene is shared and read only.  workers.obj holds the   *)
(* members of the filter objects, workers.local what is local to each       *)
(* thread.  Robust_estimation takes two steps: up to the return of          *)
(* ACRANSAC, which writes the model, and from the support test on.          *)

Workers == {1, 2}

\* faulty variant: the members are shared by all the objects
SharedObject(w) == 1

\* the object a worker calls: its own; the members are per object
ObjectOf(w) == w

\* the putative matches of a pair: every match of every common type
FullPutative(pair) ==
  [t \in Range(getCommonDescTypes(pair)) |-> AllMatches(pair, t)]

\* what ACRANSAC can end with for the pair of a worker
WorkerRuns(pair) ==
  EstimatorRuns[<<pair, FullPutative(pair), Infinity, DefaultIteration>>]

NoRun == [found |-> FALSE, inliers |-> << >>, model |-> Identity, errorMax |-> Infinity]

NoResult ==
  [ret_est |-> FALSE, inliers |-> NoMatches, H |-> Identity, robust |-> Infinity,
   ret_gm |-> FALSE, matches |-> NoMatches]

InitWorkers ==
  /\ FilterUnused
  /\ fill = Idle
  /\ sampling = Idle
  /\ \E pairOf \in [Workers -> Pairs] :
       workers = [obj |-> [o \in Workers |-> [H |-> Identity, robust |-> Infinity]],
                  local |-> [w \in Workers |->
                               [pc |-> "start", pair |-> pairOf[w], ac |-> NoRun,
                                result |-> NoResult]]]
  /\ clean = Idle
  /\ ctor = Idle
  /\ cctag = Idle

\* Robust_estimation up to the return of ACRANSAC
WorkerSamples(w) ==
  /\ workers.local[w].pc = "start"
  /\ \E ac \in WorkerRuns(workers.local[w].pair) :
     \E o \in {ObjectOf(w)} :
       workers' =
         [obj |-> IF NoCommonDescTypes(getCommonDescTypes(workers.local[w].pair))
                  THEN workers.obj
                  ELSE [workers.obj EXCEPT ![o].H = ModelAfter(workers.obj[o].H, ac)],
          local |-> [workers.local EXCEPT ![w].pc = "sampled", ![w].ac = ac]]
  /\ UNCHANGED <<filterVars, fill, sampling, clean, ctor, cctag>>

\* Robust_estimation from the support test to its return
WorkerEstimates(w) ==
  /\ workers.local[w].pc = "sampled"
  /\ \E o \in {ObjectOf(w)} :
     \E r \in {EstimateOn(workers.obj[o].H, workers.obj[o].robust,
                           workers.local[w].pair,
                           FullPutative(workers.local[w].pair), NoMatches,
                           workers.local[w].ac)} :
       workers' =
         [obj |-> [workers.obj EXCEPT ![o] = [H |-> r.H, robust |-> r.robust]],
          local |-> [workers.local EXCEPT
                       ![w].pc = "estimated",
                       ![w].result = [workers.local[w].result EXCEPT
                                        !.ret_est = r.ret, !.inliers = r.out]]]
  /\ UNCHANGED <<filterVars, fill, sampling, clean, ctor, cctag>>

\* Geometry_guided_matching; the worker then reads its object's model and
\* robust precision
WorkerGuides(w) ==
  /\ workers.local[w].pc = "estimated"
  /\ \E o \in {ObjectOf(w)} :
     \E g \in {GuidedOn(workers.obj[o].H, workers.obj[o].robust,
                         workers.local[w].pair, -1, NoMatches)} :
       workers' =
         [obj |-> workers.obj,
          local |-> [workers.local EXCEPT
                       ![w].pc = "done",
                       ![w].result = [workers.local[w].result EXCEPT
                                        !.H = workers.obj[o].H,
                                        !.robust = workers.obj[o].robust,
                                        !.ret_gm = g.ret, !.matches = g.out]]]
  /\ UNCHANGED <<filterVars, fill, sampling, clean, ctor, cctag>>

NextWorkers ==
  \E w \in Workers : WorkerSamples(w) \/ WorkerEstimates(w) \/ WorkerGuides(w)

SpecWorkers == InitWorkers /\ [][NextWorkers]_vars

\* the results of a pair processed alone, on a new filter object, when
\* ACRANSAC ends with ac
SoloResult(pair, ac) ==
  LET e == EstimateOn(Identity, Infinity, pair, FullPutative(pair), NoMatches, ac)
      g == GuidedOn(e.H, e.robust, pair, -1, NoMatches)
  IN [ret_est |-> e.ret, inliers |-> e.out, H |-> e.H, robust |-> e.robust,
      ret_gm |-> g.ret, matches |-> g.out]

-----------------------------------------------------------------------------
(* ColorHarmonizationEngineGlobal::CleanGraph, step by step.                *)
(* clean.pairs are the keys of _pairwiseMatches (pairs of view ids),        *)
(* clean.g the edges of putativeGraph (sets of two views), clean.ccs the    *)
(* connected components in the order map_subgraphs lists them, clean.k the  *)
(* place of the loops in that order, clean.todo the nodes of the component  *)
(* being removed that are still to handle, clean.largest the place of       *)
(* iterLargestCC (0: end()).                                                *)

\* Views of the scene.
MaxViews == 5

\* Pairs with matches.
MaxPairs == 4

Views == 1..MaxViews

\* getImagePairs and indexedGraph: one edge per pair of the map
GraphOf(pairs) == {{p[1], p[2]} : p \in pairs}

NodesOf(g) == UNION g

\* the nodes a node is connected to, itself included
RECURSIVE ReachFrom(_, _)
ReachFrom(seen, g) ==
  LET more == seen \cup UNION {e \in g : e \cap seen # {}}
  IN IF more = seen THEN seen ELSE ReachFrom(more, g)

\* the connected components of the graph
Components(g) == {ReachFrom({v}, g) : v \in NodesOf(g)}

\* the orders in which a map may list the components
Orderings(comps) ==
  {o \in [1..Cardinality(comps) -> comps] :
     \A a, b \in 1..Cardinality(comps) : a # b => o[a] # o[b]}

\* faulty variant: a component of equal size replaces the one held
LargerOrEqual(size, count) == size >= count

\* iter->second.size() > count
Larger(size, count) == size > count

\* the lookup of an erased edge: the pair as (target, source), else the
\* opposite one
ErasePair(pairs, Idu, Idv) ==
  IF <<Idu, Idv>> \in pairs THEN pairs \ {<<Idu, Idv>>}
  ELSE pairs \ {<<Idv, Idu>>}

\* the loop over the outgoing arcs of a node
RECURSIVE EraseArcs(_, _, _)
EraseArcs(pairs, node, targets) ==
  IF targets = {} THEN pairs
  ELSE LET t == CHOOSE x \in targets : \A y \in targets : x <= y
       IN EraseArcs(ErasePair(pairs, t, node), node, targets \ {t})

\* the match maps CleanGraph is called on: up to MaxPairs pairs of
\* different views, all keyed smaller view first or all larger view first
PairwiseMatchesInputs ==
  LET forward == {<<i, j>> \in Views \X Views : i < j}
      some == {P \in SUBSET forward : Cardinality(P) <= MaxPairs}
  IN some \cup {{<<p[2], p[1]>> : p \in P} : P \in some}

InitClean ==
  /\ FilterUnused
  /\ fill = Idle
  /\ sampling = Idle
  /\ workers = Idle
  /\ \E input \in PairwiseMatchesInputs :
       clean = [pc |-> "count", input |-> input, pairs |-> input,
                g |-> GraphOf(input), ccs |-> << >>, count |-> 0, largest |-> 0,
                k |-> 0, inside |-> FALSE, todo |-> {}]
  /\ ctor = Idle
  /\ cctag = Idle

\* countConnectedComponents and, with more than one, exportGraphToMapSubgraphs
CountComponents ==
  /\ clean.pc = "count"
  /\ \E comps \in {Components(clean.g)} :
       IF Cardinality(comps) > 1
       THEN \E order \in Orderings(comps) :
              clean' = [clean EXCEPT !.pc = "search", !.ccs = order, !.k = 1,
                                     !.count = 0, !.largest = 0]
       ELSE clean' = [clean EXCEPT !.pc = "done"]
  /\ UNCHANGED <<filterVars, fill, sampling, workers, ctor, cctag>>

\* one pass of the search of the largest component
SearchLargest ==
  /\ clean.pc = "search"
  /\ clean.k <= Len(clean.ccs)
  /\ \E size \in {Cardinality(clean.ccs[clean.k])} :
       clean' = IF Larger(size, clean.count)
                THEN [clean EXCEPT !.count = size, !.largest = clean.k,
                                   !.k = clean.k + 1]
                ELSE [clean EXCEPT !.k = clean.k + 1]
  /\ UNCHANGED <<filterVars, fill, sampling, workers, ctor, cctag>>

\* the search is over, the removal loop starts
StartRemoval ==
  /\ clean.pc = "search"
  /\ clean.k > Len(clean.ccs)
  /\ clean' = [clean EXCEPT !.pc = "remove", !.k = 1, !.inside = FALSE]
  /\ UNCHANGED <<filterVars, fill, sampling, workers, ctor, cctag>>

\* the largest component is skipped
SkipLargest ==
  /\ clean.pc = "remove"
  /\ ~clean.inside
  /\ clean.k <= Len(clean.ccs)
  /\ clean.k = clean.largest
  /\ clean' = [clean EXCEPT !.k = clean.k + 1]
  /\ UNCHANGED <<filterVars, fill, sampling, workers, ctor, cctag>>

\* the removal loop takes up another component
EnterComponent ==
  /\ clean.pc = "remove"
  /\ ~clean.inside
  /\ clean.k <= Len(clean.ccs)
  /\ clean.k # clean.largest
  /\ clean' = [clean EXCEPT !.inside = TRUE, !.todo = clean.ccs[clean.k]]
  /\ UNCHANGED <<filterVars, fill, sampling, workers, ctor, cctag>>

\* the outgoing edges of the next node of the component are erased from
\* the graph, and their pairs from the map
RemoveOutgoingEdges ==
  /\ clean.pc = "remove"
  /\ clean.inside
  /\ clean.todo # {}
  /\ \E node \in {CHOOSE x \in clean.todo : \A y \in clean.todo : x <= y} :
     \E arcs \in {{e \in clean.g : node \in e}} :
       clean' = [clean EXCEPT
                  !.g = clean.g \ arcs,
                  !.pairs = EraseArcs(clean.pairs, node, NodesOf(arcs) \ {node}),
                  !.todo = clean.todo \ {node}]
  /\ UNCHANGED <<filterVars, fill, sampling, workers, ctor, cctag>>

\* all the nodes of the component are handled
LeaveComponent ==
  /\ clean.pc = "remove"
  /\ clean.inside
  /\ clean.todo = {}
  /\ clean' = [clean EXCEPT !.inside = FALSE, !.k = clean.k + 1]
  /\ UNCHANGED <<filterVars, fill, sampling, workers, ctor, cctag>>

\* return true
CleanGraphReturns ==
  /\ clean.pc = "remove"
  /\ ~clean.inside
  /\ clean.k > Len(clean.ccs)
  /\ clean' = [clean EXCEPT !.pc = "done"]
  /\ UNCHANGED <<filterVars, fill, sampling, workers, ctor, cctag>>

NextClean ==
  \/ CountComponents
  \/ SearchLargest
  \/ StartRemoval
  \/ SkipLargest
  \/ EnterComponent
  \/ RemoveOutgoingEdges
  \/ LeaveComponent
  \/ CleanGraphReturns

SpecClean == InitClean /\ [][NextClean]_vars

\* the first component of the listing that no other exceeds in size
FirstOfMaximalSize(ccs) ==
  ccs[CHOOSE a \in 1..Len(ccs) :
        /\ \A b \in 1..Len(ccs) : Cardinality(ccs[b]) <= Cardinality(ccs[a])
        /\ \A b \in 1..(a - 1) : Cardinality(ccs[b]) < Cardinality(ccs[a])]

-----------------------------------------------------------------------------
(* The constructor of ColorHarmonizationEngineGlobal, loop pass by loop     *)
(* pass.  ctor.imgRef and ctor.selectionMethod are the two int parameters,  *)
(* which the loops overwrite from std::cin; ctor.m_imgRef and               *)
(* ctor.m_selectionMethod are the members _imgRef and _selectionMethod      *)
(* ("unset" until assigned); ctor.prompts counts the reads of std::cin.     *)

\* Reads of std::cin in one construction.
MaxPrompts == 3

\* _vec_fileNames when the constructor runs: default-constructed, filled
\* only by ReadInputData
vec_fileNames == << >>

\* -r and -s of the command line; -1 when the option is not given
ImgRefArguments == -1..2

SelectionMethodArguments == -1..3

\* what a read of std::cin may leave in the int (0 when the read fails)
CinValues == -1..3

InitCtor ==
  /\ FilterUnused
  /\ fill = Idle
  /\ sampling = Idle
  /\ workers = Idle
  /\ clean = Idle
  /\ cctag = Idle
  /\ \E r \in ImgRefArguments, s \in SelectionMethodArguments :
       ctor = [pc |-> "imgRef", argRef |-> r, argMethod |-> s, imgRef |-> r,
               selectionMethod |-> s, m_imgRef |-> "unset",
               m_selectionMethod |-> "unset", prompts |-> 0]

\* One step of the constructor body: a pass of the loop it is in (a prompt
\* and a read of std::cin), or the assignment that follows the loop.
ConstructorStep ==
  /\ ctor.pc \in {"imgRef", "method"}
  /\ ctor.prompts < MaxPrompts
  /\ IF ctor.pc = "imgRef"
     THEN IF ctor.imgRef < 0 \/ ctor.imgRef >= Len(vec_fileNames)
          THEN \E v \in CinValues :
                 ctor' = [ctor EXCEPT !.imgRef = v, !.prompts = ctor.prompts + 1]
          ELSE ctor' = [ctor EXCEPT !.m_imgRef = ctor.imgRef, !.pc = "method"]
     ELSE IF ctor.selectionMethod < 0 \/ ctor.selectionMethod > 2
          THEN \E v \in CinValues :
                 ctor' = [ctor EXCEPT !.selectionMethod = v,
                                      !.prompts = ctor.prompts + 1]
          ELSE ctor' = [ctor EXCEPT !.m_selectionMethod = ctor.selectionMethod,
                                    !.pc = "done"]
  /\ UNCHANGED <<filterVars, fill, sampling, workers, clean, cctag>>

NextCtor == ConstructorStep

SpecCtor == InitCtor /\ [][NextCtor]_vars

\* C20: a construction with imgRef >= 0 and a selection method of 0, 1 or 2
\* never reads std::cin, and once it has returned the members hold the two
\* values passed.
C20_ConstructorTakesArguments ==
  (ctor.pc # "idle" /\ ctor.argRef >= 0 /\ ctor.argMethod \in 0..2) =>
    /\ ctor.prompts = 0
    /\ ctor.pc = "done" =>
         (ctor.m_imgRef = ctor.argRef /\ ctor.m_selectionMethod = ctor.argMethod)

-----------------------------------------------------------------------------
(* Properties of the stored estimate *)

\* C21: whenever the robust precision is finite, the stored model and the
\* stored robust precision were written by the same Robust_estimation call,
\* the last one that returned true; and a Robust_estimation call that fails
\* on an object holding an estimate leaves both as they were.
C21_ModelAndPrecisionFromSameCall ==
  /\ Estimated(m_dPrecision_robust) =>
       (writers.H = writers.success /\ writers.robust = writers.success)
  /\ (EstimateCalled /\ ~est.ret /\ Estimated(est.robust_before)) =>
       (m_H = est.H_before /\ m_dPrecision_robust = est.robust_before)

\* the descriptor types of the caller's structure outside the common list
\* of the last guided matching call
StaleTypes == DOMAIN gm.pre \ Range(gm.descTypes)

\* C22: after a geometry-only pass the caller's structure holds, under every
\* common descriptor type, the deduplicated matches of that type alone, and
\* under every other descriptor type what the caller supplied; the value
\* returned counts all of them, so a supplied entry alone makes it true.
C22_GeometryOnlyReplacesCommonTypes ==
  GeometryOnlySwept =>
    /\ DOMAIN matches = DOMAIN gm.pre \cup Range(gm.descTypes)
    /\ \A t \in Range(gm.descTypes) :
         matches[t] = LocalMatches(m_H, m_dPrecision_robust, gm.pair, t)
    /\ \A t \in StaleTypes : matches[t] = gm.pre[t]
    /\ gm.ret <=> (gm.found + SumLen(gm.pre, StaleTypes) # 0)

\* a pass that found no match and returned true on the strength of a
\* supplied entry of a descriptor type the two views do not share
C22_Witness ==
  /\ GeometryOnlySwept
  /\ gm.pair = <<1, 3>>
  /\ StaleTypes = {"CCTAG"}
  /\ gm.found = 0
  /\ gm.ret

\* C23: a Geometry_guided_matching call on an object holding an estimate,
\* for a pair without common descriptor types, returns false and leaves the
\* caller's structure as supplied; a call on an object without an estimate
\* leaves it as supplied too and returns true exactly when it holds matches.
C23_GuidedEarlyReturns ==
  lastOp = "guided" =>
    /\ (Estimated(gm.robust_before) /\ gm.descTypes = << >>) =>
         (~gm.ret /\ matches = gm.pre)
    /\ ~Estimated(gm.robust_before) =>
         (matches = gm.pre /\ (gm.ret <=> getNbAllMatches(gm.pre) # 0))

\* a call on an object holding an estimate, for the pair (3,4), with a
\* structure that already held a match
C23_Witness ==
  /\ lastOp = "guided"
  /\ Estimated(gm.robust_before)
  /\ gm.pair = <<3, 4>>
  /\ getNbAllMatches(matches) > 0
  /\ ~gm.ret

-----------------------------------------------------------------------------
(* The CCTag subgroup loop of main_ComputeCCTagStructureFromKnownPoses,     *)
(* pass by pass.  cctag.connectedViews maps a view to the views paired      *)
(* with it, cctag.cctagsVisibility a CCTag id to the views that observe     *)
(* it; cctag.ids are the ids the outer loop has still to take, cctag.id     *)
(* the one it is at, cctag.viewsWithSameCCTagId the views of it not yet in  *)
(* a subgroup; cctag.subgroups records every subgroup built (with the       *)
(* views that were left when it was built), cctag.structure the landmarks   *)
(* created.                                                                 *)

\* Views of the reconstruction.
MaxTagViews == 3

TagViews == 1..MaxTagViews

\* the CCTag ids that may be observed
TagIds == {1, 2}

\* the pairs of views the connectivity is built from
ViewPairSets == SUBSET {<<i, j>> \in TagViews \X TagViews : i < j}

\* connectedViews[p.first].insert(p.second) and the converse, for every pair
ConnectedViewsOf(viewPairs) ==
  [v \in TagViews |-> {p[2] : p \in {q \in viewPairs : q[1] = v}}
                        \cup {p[1] : p \in {q \in viewPairs : q[2] = v}}]

\* cctagsVisibility: the ids seen, each with the views that see it
Visibilities ==
  UNION {[T -> (SUBSET TagViews) \ {{}}] : T \in SUBSET TagIds}

\* *set.begin(): the smallest element
First(set) == CHOOSE x \in set : \A y \in set : x <= y

\* faulty variant: the intersection is taken with all the views of the id
SubGroupOfVisible(obsViewId, connected, remaining, visible) ==
  {obsViewId} \cup (connected[obsViewId] \cap visible)

\* cctagSubGroup: the seed view and the intersection of its connected views
\* with the views not yet in a subgroup
SubGroup(obsViewId, connected, remaining, visible) ==
  {obsViewId} \cup (connected[obsViewId] \cap remaining)

InitCCTag ==
  /\ FilterUnused
  /\ fill = Idle
  /\ sampling = Idle
  /\ workers = Idle
  /\ clean = Idle
  /\ ctor = Idle
  /\ \E viewPairs \in ViewPairSets, visibility \in Visibilities :
       cctag = [pc |-> "ids", connectedViews |-> ConnectedViewsOf(viewPairs),
                cctagsVisibility |-> visibility, ids |-> DOMAIN visibility,
                id |-> 0, viewsWithSameCCTagId |-> {}, subgroups |-> << >>,
                structure |-> << >>, landmarkIndex |-> 0]

\* the outer loop takes the next CCTag id
NextCCTagId ==
  /\ cctag.pc = "ids"
  /\ cctag.ids # {}
  /\ \E id \in {First(cctag.ids)} :
       cctag' = [cctag EXCEPT !.pc = "split", !.id = id, !.ids = cctag.ids \ {id},
                              !.viewsWithSameCCTagId = cctag.cctagsVisibility[id]]
  /\ UNCHANGED <<filterVars, fill, sampling, workers, clean, ctor>>

\* one pass of the while loop: a subgroup is built around the first view
\* left, made a landmark if it has more than one view, and removed
SplitSubGroup ==
  /\ cctag.pc = "split"
  /\ cctag.viewsWithSameCCTagId # {}
  /\ \E obsViewId \in {First(cctag.viewsWithSameCCTagId)} :
     \E cctagSubGroup \in {SubGroup(obsViewId, cctag.connectedViews,
                                    cctag.viewsWithSameCCTagId,
                                    cctag.cctagsVisibility[cctag.id])} :
       cctag' = [cctag EXCEPT
                  !.subgroups = Append(cctag.subgroups,
                                  [id |-> cctag.id, seed |-> obsViewId,
                                   views |-> cctagSubGroup,
                                   left |-> cctag.viewsWithSameCCTagId]),
                  !.structure = IF Cardinality(cctagSubGroup) > 1
                                THEN Append(cctag.structure,
                                       [index |-> cctag.landmarkIndex, id |-> cctag.id,
                                        observations |-> cctagSubGroup])
                                ELSE cctag.structure,
                  !.landmarkIndex = IF Cardinality(cctagSubGroup) > 1
                                    THEN cctag.landmarkIndex + 1
                                    ELSE cctag.landmarkIndex,
                  !.viewsWithSameCCTagId = cctag.viewsWithSameCCTagId \ cctagSubGroup]
  /\ UNCHANGED <<filterVars, fill, sampling, workers, clean, ctor>>

\* no view of the id is left: the while loop ends
CCTagIdDone ==
  /\ cctag.pc = "split"
  /\ cctag.viewsWithSameCCTagId = {}
  /\ cctag' = [cctag EXCEPT !.pc = "ids"]
  /\ UNCHANGED <<filterVars, fill, sampling, workers, clean, ctor>>

\* no id is left: the outer loop ends
CCTagLoopEnds ==
  /\ cctag.pc = "ids"
  /\ cctag.ids = {}
  /\ cctag' = [cctag EXCEPT !.pc = "done"]
  /\ UNCHANGED <<filterVars, fill, sampling, workers, clean, ctor>>

NextCCTag == NextCCTagId \/ SplitSubGroup \/ CCTagIdDone \/ CCTagLoopEnds

\* The loop is a piece of main and nothing else runs in its thread: it
\* keeps taking its next step as long as it has one.
SpecCCTag == InitCCTag /\ [][NextCCTag]_vars /\ WF_vars(NextCCTag)

\* the subgroups built so far are disjoint for a same id, each is its seed
\* and the views left that are connected to the seed, the landmarks are the
\* subgroups of two views or more, no view is in two landmarks of a same
\* id, and once the loop has ended the subgroups of an id make up the views
\* that observe it
SubGroupsPartition ==
  cctag.pc # "idle" =>
    /\ \A a, b \in 1..Len(cctag.subgroups) :
         (a # b /\ cctag.subgroups[a].id = cctag.subgroups[b].id) =>
           cctag.subgroups[a].views \cap cctag.subgroups[b].views = {}
    /\ \A a \in 1..Len(cctag.subgroups) :
         cctag.subgroups[a].views =
           {cctag.subgroups[a].seed}
             \cup (cctag.connectedViews[cctag.subgroups[a].seed]
                    \cap cctag.subgroups[a].left)
    /\ {[id |-> l.id, observations |-> l.observations] :
          l \in Range(cctag.structure)}
         = {[id |-> g.id, observations |-> g.views] :
             g \in {h \in Range(cctag.subgroups) : Cardinality(h.views) >= 2}}
    /\ \A a, b \in 1..Len(cctag.structure) :
         a # b =>
           /\ cctag.structure[a].index # cctag.structure[b].index
           /\ cctag.structure[a].id = cctag.structure[b].id =>
                cctag.structure[a].observations
                  \cap cctag.structure[b].observations = {}
    /\ cctag.pc = "done" =>
         \A id \in DOMAIN cctag.cctagsVisibility :
           UNION {g.views : g \in {h \in Range(cctag.subgroups) : h.id = id}}
             = cctag.cctagsVisibility[id]

\* C24: the subgroup loop always comes to its end, and at every moment the
\* subgroups it has built partition the views handled as stated above.
C24_SubGroupLoopPartitions ==
  /\ []SubGroupsPartition
  /\ <>(cctag.pc = "done")

\* the loop has ended on an id seen by three views of which only two are
\* connected: one landmark of two views, and one view left without landmark
C24_Witness ==
  /\ cctag.pc = "done"
  /\ \E g, h \in Range(cctag.subgroups) :
       /\ g.id = h.id
       /\ Cardinality(g.views) = 2
       /\ Cardinality(h.views) = 1
       /\ Cardinality(cctag.cctagsVisibility[g.id]) = 3
  /\ Len(cctag.structure) >= 1

====
